---- MODULE Spec2Model ----
(***************************************************************************)
(* ApplyRidersToGraph.py: ridership volumes applied to the segments of a   *)
(* street network.  The script is Python 2 (csv opened 'rb') on NetworkX   *)
(* 1.10/1.11 (edges(data=<attribute name>), subgraph() returning a         *)
(* modifiable graph), so dictionaries keyed by small integers iterate in   *)
(* ascending key order and the two direction keys iterate 'inbound' then   *)
(* 'outbound'.  Ridership values are Python floats; they are modelled as   *)
(* exact rationals, every load being an integer number of 1/Unit riders.   *)
(***************************************************************************)
EXTENDS Integers, Sequences, FiniteSets, TLC

VARIABLES segments, dictRouteSegments, dictRouteMetrics,
          G, dictRouteLinks, dictRouteNodes, subgraph,
          r, dir, i, total, path, tlinks, tlinks_bound, tlinks_from, adjusted,
          lstBadData, lstMissingLink, dd, pc

\* tlinks_from is not a name of the script: it records the stop pair <<r, dir, i>>
\* whose search made the last assignment to tlinks (line 339 or 360).
vars == <<segments, dictRouteSegments, dictRouteMetrics,
          G, dictRouteLinks, dictRouteNodes, subgraph,
          r, dir, i, total, path, tlinks, tlinks_bound, tlinks_from, adjusted,
          lstBadData, lstMissingLink, dd, pc>>

---------------------------------------------------------------------------
(* Bounds of the model *)
\* the most stops a route has in one direction
MaxStops == 3
\* the most rows (stops of all routes and directions) of the ridership query
MaxRows == 5
\* the most rows of the street feature class when the graph builder is run alone
MaxSegs == 2

Nodes == 1..3
NodePairs == Nodes \X Nodes
\* dictRouteSegments.keys(): the routes, in dictionary order
Routes == 1..2
\* Python's None (a null end point, an unparseable TLINK_ID)
None == 0 - 1
LinkDom == (0..3) \cup {None}
\* dictRouteMetrics.keys(): the two direction keys in Python 2 dictionary order
Dirs == <<"inbound", "outbound">>

Min(a, b) == IF a <= b THEN a ELSE b
Max(a, b) == IF a >= b THEN a ELSE b
InSeq(x, s) == \E k \in 1..Len(s) : s[k] = x

RECURSIVE Gcd(_, _)
Gcd(a, b) == IF b = 0 THEN a ELSE Gcd(b, a % b)
Lcm(a, b) == (a * b) \div Gcd(a, b)

---------------------------------------------------------------------------
(* CreateDirectedMultiGraph: G[<<u, v>>] is the key dictionary of the       *)
(* parallel edges u -> v, key k being element k + 1 of the sequence.       *)
EmptyGraph == [p \in NodePairs |-> <<>>]

add_edge(g, u, v, tlink, cost) ==
    [g EXCEPT ![<<u, v>>] = Append(@, [link |-> tlink, cost |-> cost, total |-> 0])]

\* the flow codes 1 and 2 taken for each other
AddRowFlowSwapped(g, row) ==
    IF row[1] # None /\ row[2] # None
    THEN IF row[4] = 1 THEN add_edge(g, row[2], row[1], row[3], row[5])
         ELSE IF row[4] = 2 THEN add_edge(g, row[1], row[2], row[3], row[5])
         ELSE add_edge(add_edge(g, row[1], row[2], row[3], row[5]),
                       row[2], row[1], row[3], row[5])
    ELSE g

\* one row of the search cursor: <<FR_TPOINT, TO_TPOINT, TLINK_ID, CAR_FLOW, ROLL_LEN>>
AddRow(g, row) ==
    LET ifrom == row[1]
        to    == row[2]
        tlink == row[3]
        flow  == row[4]
        cost  == row[5]
    IN  IF ifrom # None /\ to # None
        THEN IF flow = 2 THEN add_edge(g, to, ifrom, tlink, cost)
             ELSE IF flow = 1 THEN add_edge(g, ifrom, to, tlink, cost)
             ELSE add_edge(add_edge(g, ifrom, to, tlink, cost), to, ifrom, tlink, cost)
        ELSE g

RECURSIVE BuildFrom(_, _)
BuildFrom(g, rows) ==
    IF rows = <<>> THEN g ELSE BuildFrom(AddRow(g, Head(rows)), Tail(rows))

CreateDirectedMultiGraph(rows) == BuildFrom(EmptyGraph, rows)

---------------------------------------------------------------------------
(* G.edges(...): every edge once, by source node, target node, key.         *)
RECURSIVE RangeSeq(_, _)
RangeSeq(a, b) == IF a > b THEN <<>> ELSE <<a>> \o RangeSeq(a + 1, b)

RECURSIVE Flatten(_)
Flatten(ss) == IF ss = <<>> THEN <<>> ELSE Head(ss) \o Flatten(Tail(ss))

\* the edges of g as <<u, v, k>>, in iteration order
EdgeScan(g) ==
    Flatten([u \in Nodes |->
       Flatten([v \in Nodes |-> [k \in 1..Len(g[<<u, v>>]) |-> <<u, v, k>>]])])

\* the nodes of g (nodes exist only as end points of edges)
NodesOf(g) == {n \in Nodes : \E m \in Nodes : g[<<n, m>>] # <<>> \/ g[<<m, n>>] # <<>>}

(* NodeLookup: TLINK_ID -> (from, to) of the last scanned edge carrying it; *)
(* a defaultdict(tuple), so a missing TLINK_ID reads as the empty tuple.    *)
RECURSIVE IndexScan(_, _, _, _)
IndexScan(g, scan, keep, idx) ==
    IF scan = <<>> THEN idx
    ELSE LET e == Head(scan)
             l == g[<<e[1], e[2]>>][e[3]].link
         IN  IndexScan(g, Tail(scan), keep,
                       IF keep[l] THEN [idx EXCEPT ![l] = <<e[1], e[2]>>] ELSE idx)

EmptyIndex == [l \in LinkDom |-> <<>>]

NodeLookup(g) == IndexScan(g, EdgeScan(g), [l \in LinkDom |-> TRUE], EmptyIndex)

---------------------------------------------------------------------------
(* CreateSubgraph.  A graph view is the node set and, for every node pair, *)
(* the keys of the parallel edges it holds; edge data is shared with G.    *)
WholeView(g) ==
    [nodes |-> NodesOf(g), keys |-> [p \in NodePairs |-> 1..Len(g[p])]]

OutOfSet(g, p, links) == {k \in 1..Len(g[p]) : ~InSeq(g[p][k].link, links)}

\* subgraph.remove_edge(u, v), called once for every edge u -> v whose link is
\* not a route link: each call is keydict.popitem(), which in CPython 2 takes
\* the lowest occupied slot, i.e. the lowest remaining key.
RemainingKeys(g, p, links) ==
    (Cardinality(OutOfSet(g, p, links)) + 1)..Len(g[p])

CreateSubgraph(g, route, routeSegments) ==
    LET links    == routeSegments[route]
        keep     == [l \in LinkDom |-> InSeq(l, links)]
        nodeIdx  == IndexScan(g, EdgeScan(g), keep, EmptyIndex)
        lstNodes == {n \in Nodes : \E l \in LinkDom : nodeIdx[l] # <<>> /\ InSeq(n, nodeIdx[l])}
        induced  == [p \in NodePairs |->
                       IF p[1] \in lstNodes /\ p[2] \in lstNodes
                       THEN RemainingKeys(g, p, links) ELSE {}]
    IN  [dictRouteLinks |-> links,
         dictRouteNodes |-> nodeIdx,
         subgraph       |-> [nodes |-> lstNodes, keys |-> induced]]

---------------------------------------------------------------------------
(* nx.shortest_path(view, source, target, weight='cost'): Dijkstra with a  *)
(* heap of (distance, counter, node); a parallel edge set weighs its       *)
(* minimum cost.                                                           *)
MinOf(S) == CHOOSE x \in S : \A y \in S : x <= y

Weight(g, view, u, v) == MinOf({g[<<u, v>>][k].cost : k \in view.keys[<<u, v>>]})

\* successors of v in dictionary order
Succ(view, v) ==
    LET nb == {u \in Nodes : view.keys[<<v, u>>] # {}}
    IN  Flatten([u \in Nodes |-> IF u \in nb THEN <<u>> ELSE <<>>])

Unseen == 0 - 1

RECURSIVE Relax(_, _, _, _, _)
Relax(g, view, v, nbrs, st) ==
    IF nbrs = <<>> THEN st
    ELSE LET u       == Head(nbrs)
             vu_dist == st.seen[v] + Weight(g, view, v, u)
         IN  IF u \notin st.dist /\ (st.seen[u] = Unseen \/ vu_dist < st.seen[u])
             THEN Relax(g, view, v, Tail(nbrs),
                        [st EXCEPT !.seen[u]  = vu_dist,
                                   !.fringe   = @ \cup {<<vu_dist, st.c, u>>},
                                   !.c        = @ + 1,
                                   !.paths[u] = Append(st.paths[v], u)])
             ELSE Relax(g, view, v, Tail(nbrs), st)

RECURSIVE DijkstraLoop(_, _, _, _)
DijkstraLoop(g, view, target, st) ==
    IF st.fringe = {} THEN st
    ELSE LET top  == CHOOSE e \in st.fringe : \A f \in st.fringe :
                         e[1] < f[1] \/ (e[1] = f[1] /\ e[2] <= f[2])
             v    == top[3]
             rest == [st EXCEPT !.fringe = @ \ {top}]
         IN  IF v \in st.dist THEN DijkstraLoop(g, view, target, rest)
             ELSE IF v = target THEN [rest EXCEPT !.dist = @ \cup {v}]
             ELSE IF v \notin view.nodes THEN [rest EXCEPT !.keyerror = TRUE]
             ELSE DijkstraLoop(g, view, target,
                               Relax(g, view, v, Succ(view, v),
                                     [rest EXCEPT !.dist = @ \cup {v}]))

\* dijkstra_path: paths[target], NetworkXNoPath when the target was not reached
PathOf(st, target) ==
    IF st.keyerror THEN [kind |-> "keyerror", path |-> <<>>]
    ELSE IF st.paths[target] = <<>> THEN [kind |-> "nopath", path |-> <<>>]
    ELSE [kind |-> "path", path |-> st.paths[target]]

\* [kind |-> "path" | "nopath" | "keyerror", path |-> the node path]
shortest_path(g, view, source, target) ==
    IF source = target THEN [kind |-> "path", path |-> <<source>>]
    ELSE PathOf(DijkstraLoop(g, view, target,
                    [dist     |-> {},
                     seen     |-> [n \in Nodes |-> IF n = source THEN 0 ELSE Unseen],
                     paths    |-> [n \in Nodes |-> IF n = source THEN <<source>> ELSE <<>>],
                     fringe   |-> {<<0, 0, source>>},
                     c        |-> 1,
                     keyerror |-> FALSE]), target)

---------------------------------------------------------------------------
(* GetTLINK: one TLINK_ID for every consecutive node pair of the path.     *)
RECURSIVE LastInSet(_, _, _, _)
LastInSet(data, k, links, tlink) ==
    IF k > Len(data) THEN tlink
    ELSE LastInSet(data, k + 1, links,
                   IF InSeq(data[k].link, links) THEN data[k].link ELSE tlink)

RECURSIVE MinCost(_, _, _, _)
MinCost(data, k, cost, tlink) ==
    IF k > Len(data) THEN tlink
    ELSE IF data[k].cost <= cost
         THEN MinCost(data, k + 1, data[k].cost, data[k].link)
         ELSE MinCost(data, k + 1, cost, tlink)

PickTLINK(data, links) ==
    LET tlink == LastInSet(data, 1, links, 0)
    IN  IF tlink = 0 THEN MinCost(data, 1, data[1].cost, tlink) ELSE tlink

GetTLINK(g, lstPath, links) ==
    [k \in 1..(Len(lstPath) - 1) |-> PickTLINK(g[<<lstPath[k], lstPath[k + 1]>>], links)]

---------------------------------------------------------------------------
(* AdjustRidership, as exact fractions <<numerator, denominator>>; ok is    *)
(* FALSE where Python raises ZeroDivisionError.                            *)
\* a zero total leaves the stop unadjusted instead of dividing by it
AdjustRidershipGuarded(ons, offs, total_on, total_off) ==
    IF total_on = 0 \/ total_off = 0
    THEN [ok |-> TRUE, ons |-> <<ons, 1>>, offs |-> <<offs, 1>>]
    ELSE IF total_on > total_off
    THEN [ok   |-> TRUE,
          ons  |-> <<ons, 1>>,
          offs |-> <<offs * total_off + (total_on - total_off) * offs, total_off>>]
    ELSE [ok   |-> TRUE,
          ons  |-> <<ons * total_on + (total_off - total_on) * ons, total_on>>,
          offs |-> <<offs, 1>>]

\* the larger aggregate is inflated instead of the smaller one
AdjustRidershipSwapped(ons, offs, total_on, total_off) ==
    IF total_on < total_off
    THEN [ok   |-> total_off # 0,
          ons  |-> <<ons, 1>>,
          offs |-> <<offs * total_off + (total_off - total_on) * offs, total_off>>]
    ELSE [ok   |-> total_on # 0,
          ons  |-> <<ons * total_on + (total_on - total_off) * ons, total_on>>,
          offs |-> <<offs, 1>>]

AdjustRidership(ons, offs, total_on, total_off) ==
    IF total_on > total_off
    THEN LET diff == total_on - total_off
         IN  [ok   |-> total_off # 0,
              ons  |-> <<ons, 1>>,
              offs |-> <<offs * total_off + diff * offs, total_off>>]
    ELSE LET diff == total_off - total_on
         IN  [ok   |-> total_on # 0,
              ons  |-> <<ons * total_on + diff * ons, total_on>>,
              offs |-> <<offs, 1>>]

---------------------------------------------------------------------------
(* RouteDataLookup: dictRouteMetrics[<<dir, route>>] is the stop list of   *)
(* the pair in ascending sequence order, each stop [tlink, ons, offs];     *)
(* dictRouteTotals sums the boardings and alightings of the pair.          *)
RECURSIVE SumOf(_, _)
SumOf(stops, field) ==
    IF stops = <<>> THEN 0
    ELSE (IF field = "ons" THEN Head(stops).ons ELSE Head(stops).offs)
         + SumOf(Tail(stops), field)

dictRouteTotals(metrics, d, route) ==
    [ons  |-> SumOf(metrics[<<d, route>>], "ons"),
     offs |-> SumOf(metrics[<<d, route>>], "offs")]

\* loads are counted in riders / Unit: Unit is a common denominator of every
\* fraction AdjustRidership can return for the ridership data at hand
RECURSIVE LcmOver(_)
LcmOver(S) ==
    IF S = {} THEN 1
    ELSE LET x == CHOOSE y \in S : TRUE IN Lcm(x, LcmOver(S \ {x}))

Unit ==
    LcmOver({t \in {dictRouteTotals(dictRouteMetrics, Dirs[d], q).ons : d \in 1..2, q \in Routes}
                 \cup {dictRouteTotals(dictRouteMetrics, Dirs[d], q).offs : d \in 1..2, q \in Routes}
             : t > 0})

---------------------------------------------------------------------------
(* RidershipAlgorithm, one stop pair (the body of the loop over stops).    *)
dictAllNodes == NodeLookup(G)

dictStops == dictRouteMetrics[<<Dirs[dir], r>>]

RECURSIVE AddLoads(_, _, _)
AddLoads(g, path_nodes, amount) ==
    IF path_nodes = <<>> THEN g
    ELSE AddLoads([g EXCEPT ![Head(path_nodes)][1].total = @ + amount],
                  Tail(path_nodes), amount)

FallbackPath(g, allNodes, links, whole) ==
    [kind           |-> IF whole.kind = "keyerror" THEN "error" ELSE whole.kind,
     dictRouteNodes |-> allNodes,
     path           |-> whole.path,
     tlinks         |-> GetTLINK(g, whole.path, links)]

\* lines 351-371: the whole-graph index and the whole graph
\* kind: "path" (tlinks assigned), "nopath" (tlinks left as they were),
\*       "missing" (break), "error" (an exception no handler of the loop takes)
Fallback(g, allNodes, links, eSource, eTarget) ==
    IF allNodes[eSource] = <<>> \/ allNodes[eTarget] = <<>>
    THEN [kind |-> "missing", dictRouteNodes |-> allNodes, path |-> <<>>, tlinks |-> <<>>]
    ELSE FallbackPath(g, allNodes, links,
                      shortest_path(g, WholeView(g), allNodes[eSource][1], allNodes[eTarget][1]))

\* lines 331-344: the route's index and subgraph first; an IndexError of the
\* look-up or a KeyError of the search hands over to the fall-back
ResolveLocal(g, routeNodes, allNodes, links, eSource, eTarget, local) ==
    IF local.kind = "keyerror"
    THEN Fallback(g, allNodes, links, eSource, eTarget)
    ELSE [kind           |-> local.kind,
          dictRouteNodes |-> routeNodes,
          path           |-> local.path,
          tlinks         |-> GetTLINK(g, local.path, links)]

Resolve(g, routeNodes, allNodes, sub, links, eSource, eTarget) ==
    ResolveLocal(g, routeNodes, allNodes, links, eSource, eTarget,
                 IF routeNodes[eSource] = <<>> \/ routeNodes[eTarget] = <<>>
                 THEN [kind |-> "keyerror", path |-> <<>>]
                 ELSE shortest_path(g, sub, routeNodes[eSource][1], routeNodes[eTarget][1]))

\* lines 374-377
Normalize(links, eSource, eTarget) ==
    LET withSource == IF ~InSeq(eSource, links) THEN <<eSource>> \o links ELSE links
    IN  IF InSeq(eTarget, withSource)
        THEN SubSeq(withSource, 1, Len(withSource) - 1)
        ELSE withSource

\* the alightings are subtracted without the bad-data check and clamp
LoadsNoClamp(g, first, source_nodes, rest, adj, a_ons, a_offs, norm, totals, unit, res) ==
    LET tot     == IF first THEN total + a_ons + a_offs ELSE total + a_ons
        carried == tot - a_offs
    IN  [kind           |-> "apportion",
         dictRouteNodes |-> res.dictRouteNodes,
         path           |-> IF res.kind = "path" THEN res.path ELSE path,
         tlinks         |-> norm,
         found          |-> res.kind = "path",
         adjusted       |-> adj,
         total          |-> carried,
         bad            |-> tot < a_offs,
         G              |-> AddLoads(AddLoads(g, <<source_nodes>>, tot), rest, carried)]

\* the source edge is left out of the apportionment
LoadsSkipSource(g, first, source_nodes, rest, adj, a_ons, a_offs, norm, totals, unit, res) ==
    LET tot     == IF first THEN total + a_ons + a_offs ELSE total + a_ons
        bad     == tot < a_offs
        carried == IF bad
                   THEN (IF totals.ons > totals.offs THEN totals.ons ELSE totals.offs) * unit
                   ELSE tot - a_offs
    IN  [kind           |-> "apportion",
         dictRouteNodes |-> res.dictRouteNodes,
         path           |-> IF res.kind = "path" THEN res.path ELSE path,
         tlinks         |-> norm,
         found          |-> res.kind = "path",
         adjusted       |-> adj,
         total          |-> carried,
         bad            |-> bad,
         G              |-> AddLoads(g, rest, carried)]

\* lines 383-412: the running total and the loads, in riders / unit
Loads(g, first, source_nodes, rest, adj, a_ons, a_offs, norm, totals, unit, res) ==
    LET tot     == IF first THEN total + a_ons + a_offs ELSE total + a_ons
        bad     == tot < a_offs
        carried == IF bad
                   THEN (IF totals.ons > totals.offs THEN totals.ons ELSE totals.offs) * unit
                   ELSE tot - a_offs
    IN  [kind           |-> "apportion",
         dictRouteNodes |-> res.dictRouteNodes,
         path           |-> IF res.kind = "path" THEN res.path ELSE path,
         tlinks         |-> norm,
         found          |-> res.kind = "path",
         adjusted       |-> adj,
         total          |-> carried,
         bad            |-> bad,
         G              |-> AddLoads(AddLoads(g, <<source_nodes>>, tot), rest, carried)]

\* lines 374-412, once the pair is resolved
Apply(g, allNodes, stop, eTarget, totals, unit, res, adj, norm) ==
    LET path_nodes == [k \in 1..Len(norm) |-> allNodes[norm[k]]]
        rest       == SubSeq(path_nodes, 2, Len(path_nodes))
    IN  IF ~adj.ok \/ \E k \in 1..Len(rest) : rest[k] = <<>>
        THEN [kind |-> "abort", dictRouteNodes |-> res.dictRouteNodes]
        ELSE Loads(g, i = 0, res.dictRouteNodes[stop.tlink], rest, adj,
                   (adj.ons[1] * unit) \div adj.ons[2], (adj.offs[1] * unit) \div adj.offs[2],
                   norm, totals, unit, res)

\* the loop body after the look-ups and the search
Resolved(g, allNodes, stop, eTarget, totals, unit, res) ==
    IF res.kind = "missing"
    THEN [kind |-> "missing", dictRouteNodes |-> res.dictRouteNodes]
    ELSE IF res.kind = "error" \/ (~tlinks_bound /\ res.kind # "path")
    THEN [kind |-> "abort", dictRouteNodes |-> res.dictRouteNodes]
    ELSE Apply(g, allNodes, stop, eTarget, totals, unit, res,
               AdjustRidership(stop.ons, stop.offs, totals.ons, totals.offs),
               Normalize(IF res.kind = "path" THEN res.tlinks ELSE tlinks,
                         stop.tlink, eTarget))

Body(g, allNodes, stop, eTarget, totals, unit) ==
    Resolved(g, allNodes, stop, eTarget, totals, unit,
             Resolve(g, dictRouteNodes, allNodes, subgraph, dictRouteLinks,
                     stop.tlink, eTarget))

\* the whole loop body for stop pair i of the current route and direction:
\* kind "apportion", "missing" (line 371) or "abort" (line 417)
StopPair ==
    Body(G, dictAllNodes, dictStops[i + 1], dictStops[i + 2].tlink,
         dictRouteTotals(dictRouteMetrics, Dirs[dir], r), Unit)

---------------------------------------------------------------------------
(* main, lines 429-433: the ledger, one assignment per scanned edge.       *)
RECURSIVE LedgerScan(_, _, _)
LedgerScan(g, scan, ledger) ==
    IF scan = <<>> THEN ledger
    ELSE LET e    == Head(scan)
             data == g[<<e[1], e[2]>>][e[3]]
         IN  LedgerScan(g, Tail(scan), [ledger EXCEPT ![data.link] = data.total])

LinksOf(g) ==
    LET scan == EdgeScan(g)
    IN  {g[<<scan[n][1], scan[n][2]>>][scan[n][3]].link : n \in 1..Len(scan)}

Ledger(g) == LedgerScan(g, EdgeScan(g), [l \in LinksOf(g) |-> 0])

---------------------------------------------------------------------------
(* The inputs: street networks, route definitions and ridership queries.   *)
Row(ifrom, to, tlink, flow, cost) == <<ifrom, to, tlink, flow, cost>>
Stop(tlink, ons, offs) == [tlink |-> tlink, ons |-> ons, offs |-> offs]

\* rows <<FR_TPOINT, TO_TPOINT, TLINK_ID, CAR_FLOW, ROLL_LEN>> of fcStreets
\* a one-way chain 1 -> 2 -> 3
NetPath     == <<Row(1, 2, 1, 1, 1), Row(2, 3, 2, 1, 1)>>
\* a two-way triangle
NetTwoWay   == <<Row(1, 2, 1, 0, 1), Row(2, 3, 2, 0, 2), Row(1, 3, 3, 3, 2)>>
\* a one-way loop 1 -> 2 -> 3 -> 1, link 3 digitised against its flow
NetLoop     == <<Row(1, 2, 1, 1, 1), Row(2, 3, 2, 1, 1), Row(1, 3, 3, 2, 1)>>
\* links 1 and 2 both end in node 2; a row without a from-node
NetSplit    == <<Row(1, 2, 1, 1, 1), Row(None, 3, 3, 1, 1), Row(3, 2, 2, 1, 1)>>
\* links 3 and 1 are parallel edges 1 -> 2, in either order of insertion
NetOutFirst == <<Row(1, 2, 3, 1, 1), Row(1, 2, 1, 1, 2), Row(2, 3, 2, 1, 1)>>
NetInFirst  == <<Row(1, 2, 1, 1, 2), Row(1, 2, 3, 1, 1), Row(2, 3, 2, 1, 1)>>
\* a link with TLINK_ID 0, parallel to link 1
NetZero     == <<Row(1, 2, 0, 1, 2), Row(1, 2, 1, 1, 1), Row(2, 3, 2, 1, 1)>>
\* the two-way link 2 and the one-way link 1 share the node pair (1, 2)
NetShared   == <<Row(1, 2, 2, 0, 1), Row(1, 2, 1, 1, 1), Row(2, 3, 3, 1, 1)>>
\* two dead ends into node 2 and a loop segment at it
NetStub     == <<Row(1, 2, 1, 1, 1), Row(2, 2, 2, 1, 1), Row(3, 2, 3, 1, 1)>>

Networks == {NetPath, NetTwoWay, NetLoop, NetSplit, NetOutFirst, NetInFirst,
             NetZero, NetShared, NetStub}

\* dictRouteSegments: the TLINK_IDs of each route
RouteSets == {[q \in Routes |-> IF q = 1 THEN <<1, 2>> ELSE <<2, 3>>],
              [q \in Routes |-> IF q = 1 THEN <<0, 2>> ELSE <<1, 2, 3>>]}

\* the stops of a route in one direction, in sequence order; a query holds the
\* first n of them
TripFixture == <<Stop(1, 10, 0), Stop(2, 0, 10), Stop(3, 0, 0), Stop(1, 0, 0)>>
TripMass    == <<Stop(1, 10, 8), Stop(2, 90, 72), Stop(3, 0, 0), Stop(1, 0, 0)>>
TripBack    == <<Stop(2, 1, 0), Stop(1, 0, 1), Stop(3, 1, 0), Stop(2, 0, 1)>>
TripReturn  == <<Stop(1, 1, 0), Stop(2, 1, 0), Stop(1, 0, 3), Stop(3, 0, 0)>>
TripEmpty   == <<Stop(3, 0, 0), Stop(2, 0, 1), Stop(1, 1, 0), Stop(3, 0, 0)>>
TripMissing == <<Stop(3, 1, 1), Stop(None, 0, 1), Stop(1, 1, 0), Stop(2, 0, 0)>>

Trips == {TripFixture, TripMass, TripBack, TripReturn, TripEmpty, TripMissing}

StopLists == {<<>>} \cup {SubSeq(t, 1, n) : t \in Trips, n \in 2..Min(MaxStops, 4)}

RECURSIVE RowCount(_, _)
RowCount(metrics, pairs) ==
    IF pairs = {} THEN 0
    ELSE LET q == CHOOSE x \in pairs : TRUE
         IN  Len(metrics[q]) + RowCount(metrics, pairs \ {q})

DirRoutes == {Dirs[1], Dirs[2]} \X Routes

---------------------------------------------------------------------------
Init ==
    /\ segments \in Networks
    /\ dictRouteSegments \in RouteSets
    /\ dictRouteMetrics \in {m \in [DirRoutes -> StopLists] : RowCount(m, DirRoutes) <= MaxRows}
    /\ G = CreateDirectedMultiGraph(segments)
    /\ dictRouteLinks = <<>>
    /\ dictRouteNodes = EmptyIndex
    /\ subgraph = [nodes |-> {}, keys |-> [p \in NodePairs |-> {}]]
    /\ r = 0
    /\ dir = 0
    /\ i = 0
    /\ total = 0
    /\ path = <<>>
    /\ tlinks = <<>>
    /\ tlinks_bound = FALSE
    /\ tlinks_from = <<0, 0, 0>>
    /\ adjusted = [ons |-> <<0, 1>>, offs |-> <<0, 1>>]
    /\ lstBadData = <<>>
    /\ lstMissingLink = <<>>
    /\ dd = <<>>
    /\ pc = "route"

\* where the loops go after the stops of direction d are done
AfterDirection(d) == IF d < 2 THEN "dir" ELSE "route"
AfterStopPair(k, d) == IF k + 1 < Len(dictRouteMetrics[<<Dirs[d], r>>]) - 1 THEN "stop"
                       ELSE AfterDirection(d)

\* lines 304-307: the next route and its subgraph
StartRoute ==
    /\ pc = "route"
    /\ r < Cardinality(Routes)
    /\ LET sub == CreateSubgraph(G, r + 1, dictRouteSegments)
       IN  /\ dictRouteLinks' = sub.dictRouteLinks
           /\ dictRouteNodes' = sub.dictRouteNodes
           /\ subgraph' = sub.subgraph
    /\ r' = r + 1
    /\ dir' = 0
    /\ pc' = "dir"
    /\ UNCHANGED <<segments, dictRouteSegments, dictRouteMetrics, G, i, total, path, tlinks,
                   tlinks_bound, tlinks_from, adjusted, lstBadData, lstMissingLink, dd>>

\* lines 310-318: the next direction of the route
StartDirection ==
    /\ pc = "dir"
    /\ dir < 2
    /\ dir' = dir + 1
    /\ total' = 0
    /\ i' = 0
    /\ pc' = IF Len(dictRouteMetrics[<<Dirs[dir + 1], r>>]) >= 2 THEN "stop"
             ELSE AfterDirection(dir + 1)
    /\ UNCHANGED <<segments, dictRouteSegments, dictRouteMetrics, G, dictRouteLinks,
                   dictRouteNodes, subgraph, r, path, tlinks, tlinks_bound, tlinks_from, adjusted,
                   lstBadData, lstMissingLink, dd>>

\* lines 321-412: a stop pair is apportioned
ApportionWith(sp) ==
    /\ sp.kind = "apportion"
    /\ dictRouteNodes' = sp.dictRouteNodes
    /\ path' = sp.path
    /\ tlinks' = sp.tlinks
    /\ tlinks_bound' = TRUE
    /\ tlinks_from' = IF sp.found THEN <<r, dir, i>> ELSE tlinks_from
    /\ adjusted' = [ons |-> sp.adjusted.ons, offs |-> sp.adjusted.offs]
    /\ total' = sp.total
    /\ G' = sp.G
    /\ lstBadData' = IF sp.bad THEN Append(lstBadData, <<r, Dirs[dir]>>) ELSE lstBadData

Apportion ==
    /\ pc = "stop"
    /\ ApportionWith(StopPair)
    /\ i' = i + 1
    /\ pc' = AfterStopPair(i, dir)
    /\ UNCHANGED <<segments, dictRouteSegments, dictRouteMetrics, dictRouteLinks, subgraph,
                   r, dir, lstMissingLink, dd>>

\* lines 365-371: neither index holds the link of a stop
BreakWith(sp, kind) ==
    /\ sp.kind = kind
    /\ dictRouteNodes' = sp.dictRouteNodes

\* the missing link is raised to the handler of line 417 instead of breaking
MissingLinkAborts ==
    /\ pc = "stop"
    /\ BreakWith(StopPair, "missing")
    /\ lstMissingLink' = Append(lstMissingLink, <<r, Dirs[dir]>>)
    /\ pc' = "aborted"
    /\ UNCHANGED <<segments, dictRouteSegments, dictRouteMetrics, G, dictRouteLinks, subgraph,
                   r, dir, i, total, path, tlinks, tlinks_bound, tlinks_from, adjusted, lstBadData, dd>>

MissingLink ==
    /\ pc = "stop"
    /\ BreakWith(StopPair, "missing")
    /\ lstMissingLink' = Append(lstMissingLink, <<r, Dirs[dir]>>)
    /\ pc' = AfterDirection(dir)
    /\ UNCHANGED <<segments, dictRouteSegments, dictRouteMetrics, G, dictRouteLinks, subgraph,
                   r, dir, i, total, path, tlinks, tlinks_bound, tlinks_from, adjusted, lstBadData, dd>>

\* lines 417-420: an exception ends the run with SystemExit
Abort ==
    /\ pc = "stop"
    /\ BreakWith(StopPair, "abort")
    /\ pc' = "aborted"
    /\ UNCHANGED <<segments, dictRouteSegments, dictRouteMetrics, G, dictRouteLinks, subgraph,
                   r, dir, i, total, path, tlinks, tlinks_bound, tlinks_from, adjusted, lstBadData,
                   lstMissingLink, dd>>

\* line 414: every route is done
Return ==
    /\ pc = "route"
    /\ r = Cardinality(Routes)
    /\ pc' = "main"
    /\ UNCHANGED <<segments, dictRouteSegments, dictRouteMetrics, G, dictRouteLinks,
                   dictRouteNodes, subgraph, r, dir, i, total, path, tlinks, tlinks_bound,
                   tlinks_from, adjusted, lstBadData, lstMissingLink, dd>>

\* main, lines 424-433: the ledger handed to the write-back
Main ==
    /\ pc = "main"
    /\ dd' = Ledger(G)
    /\ pc' = "done"
    /\ UNCHANGED <<segments, dictRouteSegments, dictRouteMetrics, G, dictRouteLinks,
                   dictRouteNodes, subgraph, r, dir, i, total, path, tlinks, tlinks_bound,
                   tlinks_from, adjusted, lstBadData, lstMissingLink>>

Next == StartRoute \/ StartDirection \/ Apportion \/ MissingLink \/ Abort \/ Return \/ Main

Spec == Init /\ [][Next]_vars

---------------------------------------------------------------------------
(* CreateDirectedMultiGraph run alone, one cursor row at a time, over every *)
(* sequence of at most MaxSegs rows.                                       *)
CursorRows ==
    {Row(ifrom, to, lc[1], flow, lc[2]) :
        ifrom \in {None, 1, 2}, to \in {None, 1, 2}, lc \in {<<1, 2>>, <<2, 1>>},
        flow \in 0..3}

InitBuild ==
    /\ segments = <<>>
    /\ G = EmptyGraph
    /\ dictRouteSegments = [q \in Routes |-> <<>>]
    /\ dictRouteMetrics = [q \in DirRoutes |-> <<>>]
    /\ dictRouteLinks = <<>>
    /\ dictRouteNodes = EmptyIndex
    /\ subgraph = [nodes |-> {}, keys |-> [p \in NodePairs |-> {}]]
    /\ r = 0
    /\ dir = 0
    /\ i = 0
    /\ total = 0
    /\ path = <<>>
    /\ tlinks = <<>>
    /\ tlinks_bound = FALSE
    /\ tlinks_from = <<0, 0, 0>>
    /\ adjusted = [ons |-> <<0, 1>>, offs |-> <<0, 1>>]
    /\ lstBadData = <<>>
    /\ lstMissingLink = <<>>
    /\ dd = <<>>
    /\ pc = "build"

\* lines 67-87: the cursor yields a row
ReadRow ==
    /\ pc = "build"
    /\ Len(segments) < MaxSegs
    /\ \E row \in CursorRows :
          /\ segments' = Append(segments, row)
          /\ G' = AddRow(G, row)
    /\ UNCHANGED <<dictRouteSegments, dictRouteMetrics, dictRouteLinks, dictRouteNodes,
                   subgraph, r, dir, i, total, path, tlinks, tlinks_bound, tlinks_from, adjusted,
                   lstBadData, lstMissingLink, dd, pc>>

NextBuild == ReadRow

SpecBuild == InitBuild /\ [][NextBuild]_vars

---------------------------------------------------------------------------
(* Claims *)

\* the end-to-end fixture: the network 1 -> 2 -> 3 (links 1 and 2, cost 1), route 1
\* holding both links, and ridership for one direction of route 1 only: stop 0 on
\* link 1 (ons 10), stop 1 on link 2 (offs 10)
FixtureStops == <<Stop(1, 10, 0), Stop(2, 0, 10)>>

FixtureRun ==
    /\ segments = NetPath
    /\ \E d \in 1..2 :
          \A q \in DirRoutes :
             dictRouteMetrics[q] = IF q = <<Dirs[d], 1>> THEN FixtureStops ELSE <<>>

\* C1 (as stated): the fixture run ends with the ledger {link 1: 10, link 2: 10}
\* and empty bad-data and missing-link reports.
C1_Original ==
    (FixtureRun /\ pc = "done") =>
        /\ dd[1] = 10 * Unit /\ dd[2] = 10 * Unit
        /\ lstBadData = <<>> /\ lstMissingLink = <<>>

\* C1 (amended): the fixture run completes with the ledger {link 1: 10, link 2: 0}
\* and empty bad-data and missing-link reports: the link of the last stop is the
\* excluded target link and takes no load.
C1_FixtureLedger ==
    FixtureRun =>
        /\ pc # "aborted"
        /\ pc = "done" =>
              /\ dd = [l \in {1, 2} |-> IF l = 1 THEN 10 * Unit ELSE 0]
              /\ lstBadData = <<>> /\ lstMissingLink = <<>>

C1_Witness == FixtureRun /\ pc = "done" /\ Unit = 10

---------------------------------------------------------------------------
\* the load of all the edges of g that carry link l
RECURSIVE LoadScan(_, _, _)
LoadScan(g, scan, l) ==
    IF scan = <<>> THEN 0
    ELSE LET e    == Head(scan)
             data == g[<<e[1], e[2]>>][e[3]]
         IN  (IF data.link = l THEN data.total ELSE 0) + LoadScan(g, Tail(scan), l)

LoadOfLink(g, l) == LoadScan(g, EdgeScan(g), l)

\* C2: after a run the ledger value of every link carried by an edge is the sum
\* of the loads of all the edges (every direction, every parallel edge) that
\* carry the link.
C2_LedgerIsSum ==
    pc = "done" =>
        /\ DOMAIN dd = LinksOf(G)
        /\ \A l \in DOMAIN dd : dd[l] = LoadOfLink(G, l)

\* C3: the subgraph of a route holds no edge whose link is outside the route's
\* link set and holds every edge whose link is in the set, parallel edges
\* included.
C3_SubgraphExact ==
    r >= 1 =>
        \A p \in NodePairs : \A k \in 1..Len(G[p]) :
            (k \in subgraph.keys[p]) <=> InSeq(G[p][k].link, dictRouteLinks)

\* the links of the stop pair about to be processed
eSource == dictStops[i + 1].tlink
eTarget == dictStops[i + 2].tlink

\* a link of the pair is in neither the route's index nor the whole-graph index
LinkInNoIndex ==
    \E x \in {eSource, eTarget} : dictRouteNodes[x] = <<>> /\ dictAllNodes[x] = <<>>

\* C4: when a link of a stop pair is in neither index, the route and direction
\* are appended to the missing-link report, no load changes, the loop goes on
\* with the next direction (or route) and not to the abort; no later step loads
\* an edge for a reported route and direction, and the run returns only after
\* the last direction of the last route.
C4_MissingLinkRecovered ==
    /\ [][(pc = "stop" /\ LinkInNoIndex) =>
             /\ lstMissingLink' = Append(lstMissingLink, <<r, Dirs[dir]>>)
             /\ G' = G /\ r' = r /\ dir' = dir
             /\ pc' = IF dir < 2 THEN "dir" ELSE "route"]_vars
    /\ [][G' # G => ~InSeq(<<r, Dirs[dir]>>, lstMissingLink)]_vars
    /\ [](pc \in {"main", "done"} => r = Cardinality(Routes) /\ dir = 2)

\* a route 1 direction was reported missing, and the run went on to load edges
\* for the other direction and to produce the ledger
C4_Witness ==
    /\ pc = "done"
    /\ lstMissingLink = << <<1, "inbound">> >>
    /\ dictRouteMetrics[<<"outbound", 1>>] # <<>>
    /\ \E l \in DOMAIN dd : dd[l] > 0

\* the search of the pair about to be processed finds no path
NoPathFound ==
    Resolve(G, dictRouteNodes, dictAllNodes, subgraph, dictRouteLinks,
            eSource, eTarget).kind = "nopath"

NonZeroTotals ==
    /\ dictRouteTotals(dictRouteMetrics, Dirs[dir], r).ons > 0
    /\ dictRouteTotals(dictRouteMetrics, Dirs[dir], r).offs > 0

\* C5: when the search finds no path for a stop pair, at any position of the
\* run, the run does not abort: the loop goes on with the stops of the pair's
\* route and direction.
C5_NoPathRecovered ==
    [][(pc = "stop" /\ NonZeroTotals /\ NoPathFound) =>
          /\ pc' # "aborted"
          /\ r' = r /\ dir' = dir /\ i' = i + 1]_vars

\* C6: GetTLINK returns one link per consecutive node pair of the path; where a
\* parallel edge of the pair carries a route link the link returned is a route
\* link of such an edge, whatever the costs and whatever the link id; where
\* none does it is the link of a parallel edge of least cost.
C6_ResolveLinks ==
    (r >= 1 /\ tlinks_bound) =>
        LET res == GetTLINK(G, path, dictRouteLinks)
        IN  /\ Len(res) = Len(path) - 1
            /\ \A k \in 1..Len(res) :
                  LET data  == G[<<path[k], path[k + 1]>>]
                      inset == {j \in 1..Len(data) : InSeq(data[j].link, dictRouteLinks)}
                  IN  IF inset # {}
                      THEN \E j \in inset : res[k] = data[j].link
                      ELSE \E j \in 1..Len(data) :
                              /\ res[k] = data[j].link
                              /\ \A m \in 1..Len(data) : data[j].cost <= data[m].cost

\* C7: with boardings and alightings >= 0, every load is >= 0 in every state of
\* the run and no step lowers the load of any edge.
C7_LoadMonotone ==
    /\ [](\A p \in NodePairs : \A k \in 1..Len(G[p]) : G[p][k].total >= 0)
    /\ [][\A p \in NodePairs : \A k \in 1..Len(G[p]) :
             G'[p][k].total >= G[p][k].total]_vars

\* the bad-data clamp was applied and propagated along a path of several links
C7_Witness ==
    /\ pc \in {"stop", "dir", "route"}
    /\ dir >= 1 /\ i >= 2
    /\ lstBadData # <<>>
    /\ lstBadData[Len(lstBadData)] = <<r, Dirs[dir]>>
    /\ total = Max(dictRouteTotals(dictRouteMetrics, Dirs[dir], r).ons,
                   dictRouteTotals(dictRouteMetrics, Dirs[dir], r).offs) * Unit
    /\ Len(tlinks) >= 2
    /\ \A k \in 2..Len(tlinks) : G[dictAllNodes[tlinks[k]]][1].total >= total

\* C8 (as stated): a route and direction with ridership rows whose boardings
\* total or alightings total is zero ends the run without a ledger.
C8_Original ==
    pc = "done" =>
        \A q \in DirRoutes :
            dictRouteMetrics[q] # <<>> =>
                /\ dictRouteTotals(dictRouteMetrics, q[1], q[2]).ons > 0
                /\ dictRouteTotals(dictRouteMetrics, q[1], q[2]).offs > 0

\* C8 (amended): a zero total ends the run without a ledger when a stop pair of
\* that route and direction gets as far as the adjustment, that is when its
\* links are found in an index; nothing runs after the abort and no ledger is
\* made.  A stop pair abandoned for a missing link does not end the run.
C8_ZeroTotalFatal ==
    /\ [][(pc = "stop" /\ ~NonZeroTotals /\ ~LinkInNoIndex) =>
             (pc' = "aborted" /\ dd' = <<>> /\ G' = G)]_vars
    /\ [][(pc = "stop" /\ ~NonZeroTotals /\ LinkInNoIndex) => pc' # "aborted"]_vars
    /\ [][pc # "aborted"]_vars
    /\ [](pc = "aborted" => dd = <<>>)

\* the run was aborted at a stop pair of a route and direction with a zero
\* total, after an earlier pair had been resolved
C8_Witness == pc = "aborted" /\ tlinks_bound /\ ~NonZeroTotals

\* the edges a row yields from node pair p[1] to p[2]
RowEdges(row, p) ==
    IF row[1] = None \/ row[2] = None THEN 0
    ELSE IF row[4] = 2 THEN (IF <<row[2], row[1]>> = p THEN 1 ELSE 0)
    ELSE IF row[4] = 1 THEN (IF <<row[1], row[2]>> = p THEN 1 ELSE 0)
    ELSE (IF <<row[1], row[2]>> = p THEN 1 ELSE 0) + (IF <<row[2], row[1]>> = p THEN 1 ELSE 0)

RECURSIVE ExpectedEdges(_, _, _, _)
ExpectedEdges(rows, p, tlink, cost) ==
    IF rows = <<>> THEN 0
    ELSE (IF Head(rows)[3] = tlink /\ Head(rows)[5] = cost THEN RowEdges(Head(rows), p) ELSE 0)
         + ExpectedEdges(Tail(rows), p, tlink, cost)

\* C9: the edges of the graph are exactly: for every row with both end points,
\* one edge to -> from for flow 2, one edge from -> to for flow 1, both for any
\* other flow, each with the row's link and cost and load 0; a row with a null
\* end point yields no edge.
C9_GraphEdges ==
    \A p \in NodePairs :
        /\ \A k \in 1..Len(G[p]) : G[p][k].total = 0
        /\ \A tlink \in {1, 2} : \A cost \in {1, 2} :
              Cardinality({k \in 1..Len(G[p]) : G[p][k].link = tlink /\ G[p][k].cost = cost})
                 = ExpectedEdges(segments, p, tlink, cost)
        /\ \A k \in 1..Len(G[p]) : G[p][k].link \in {1, 2} /\ G[p][k].cost \in {1, 2}

\* a reverse-only row, a forward-only row and a row without an end point were read
C9_Witness ==
    /\ Len(segments) = 2
    /\ segments[1][4] = 2 /\ segments[1][1] = 1 /\ segments[1][2] = 2
    /\ segments[2][4] = 0 /\ segments[2][1] = 1 /\ segments[2][2] = 2
    /\ Len(G[<<2, 1>>]) = 2 /\ Len(G[<<1, 2>>]) = 1

\* C10: for totals > 0, if total_on > total_off the boardings are unchanged and
\* adjusted_offs = offs + (total_on - total_off) * offs / total_off; otherwise
\* the alightings are unchanged and
\* adjusted_ons = ons + (total_off - total_on) * ons / total_on.
C10_AdjustRidership ==
    (r >= 1 /\ dir >= 1 /\ i >= 1) =>
        LET stop == dictStops[i]
            t    == dictRouteTotals(dictRouteMetrics, Dirs[dir], r)
        IN  /\ t.ons > 0 /\ t.offs > 0
            /\ adjusted.ons[2] > 0 /\ adjusted.offs[2] > 0
            /\ IF t.ons > t.offs
               THEN /\ adjusted.ons[1] = stop.ons * adjusted.ons[2]
                    /\ adjusted.offs[1] * t.offs
                         = (stop.offs * t.offs + (t.ons - t.offs) * stop.offs) * adjusted.offs[2]
               ELSE /\ adjusted.offs[1] = stop.offs * adjusted.offs[2]
                    /\ adjusted.ons[1] * t.ons
                         = (stop.ons * t.ons + (t.offs - t.ons) * stop.ons) * adjusted.ons[2]

\* total_on = 100, total_off = 80, ons = 10, offs = 8 gave (10, 10)
C10_Witness ==
    /\ r >= 1 /\ dir >= 1 /\ i = 1
    /\ dictStops[1] = Stop(1, 10, 8)
    /\ dictRouteTotals(dictRouteMetrics, Dirs[dir], r) = [ons |-> 100, offs |-> 80]
    /\ adjusted.ons[1] = 10 * adjusted.ons[2]
    /\ adjusted.offs[1] = 10 * adjusted.offs[2]

\* the index CreateSubgraph made for the current route
RouteIndex == CreateSubgraph(G, r, dictRouteSegments).dictRouteNodes

\* C11: every stop pair looks its links up in the node index of its own route
\* first, whatever fall-back to the whole-graph index an earlier stop pair of
\* the route took.
C11_RouteIndexFirst ==
    (pc = "stop" /\ r >= 1) => dictRouteNodes = RouteIndex

\* the load of the edge of link l between the node pair p raised by amount
AddToLink(g, p, l, amount) ==
    LET k == CHOOSE j \in 1..Len(g[p]) :
                 /\ g[p][j].link = l
                 /\ \A m \in 1..(j - 1) : g[p][m].link # l
    IN  [g EXCEPT ![p][k].total = @ + amount]

RECURSIVE AddToLinks(_, _, _, _)
AddToLinks(g, index, links, amount) ==
    IF links = <<>> THEN g
    ELSE AddToLinks(AddToLink(g, index[Head(links)], Head(links), amount),
                    index, Tail(links), amount)

\* the running total of a stop pair before and after the alightings, from the
\* adjusted values the step used
TotalAtStop(adj) ==
    IF i = 0 THEN (adj.ons[1] * Unit) \div adj.ons[2] + (adj.offs[1] * Unit) \div adj.offs[2]
    ELSE total + (adj.ons[1] * Unit) \div adj.ons[2]

CarriedFrom(tot, a_offs) ==
    IF tot < a_offs
    THEN Max(dictRouteTotals(dictRouteMetrics, Dirs[dir], r).ons,
             dictRouteTotals(dictRouteMetrics, Dirs[dir], r).offs) * Unit
    ELSE tot - a_offs

\* the running total and the bad-data report after the step, without the edges
RunningTotalStep(tot, a_offs, nextTotal, nextBad) ==
    /\ nextTotal = CarriedFrom(tot, a_offs)
    /\ nextTotal >= 0
    /\ nextBad = IF tot < a_offs THEN Append(lstBadData, <<r, Dirs[dir]>>) ELSE lstBadData

\* the loads after the step: the total on the edge of the source link, the
\* carried total on the edge of every later link of the path
LoadStep(tot, carried, links, nextG) ==
    nextG = AddToLinks(AddToLink(G, dictAllNodes[eSource], eSource, tot),
                       dictAllNodes, SubSeq(links, 2, Len(links)), carried)

\* C12: the running total is 0 at the first stop pair of a route and direction;
\* a stop pair makes it adjusted_ons + adjusted_offs (i = 0) or the carried total
\* + adjusted_ons (i > 0) and adds that to the edge of the source link; if it is
\* < adjusted_offs the route and direction are appended to the bad-data report
\* and max(total_on, total_off) is carried, otherwise total - adjusted_offs; the
\* carried total is added to the edge of every link of the path after the
\* first, is never negative, and nothing else is appended to the report.
C12_RunningTotal ==
    /\ []((pc = "stop" /\ i = 0) => total = 0)
    /\ [](total >= 0)
    /\ [][(pc = "stop" /\ i' = i + 1) =>
             /\ RunningTotalStep(TotalAtStop(adjusted'),
                                 (adjusted'.offs[1] * Unit) \div adjusted'.offs[2],
                                 total', lstBadData')
             /\ LoadStep(TotalAtStop(adjusted'), total', tlinks', G')]_vars
    /\ [][(pc # "stop" \/ i' = i) => lstBadData' = lstBadData]_vars

\* the same without the edges: the recurrence of the running total and the
\* bad-data report alone
C12_TotalsOnly ==
    /\ []((pc = "stop" /\ i = 0) => total = 0)
    /\ [](total >= 0)
    /\ [][(pc = "stop" /\ i' = i + 1) =>
             RunningTotalStep(TotalAtStop(adjusted'),
                              (adjusted'.offs[1] * Unit) \div adjusted'.offs[2],
                              total', lstBadData')]_vars
    /\ [][(pc # "stop" \/ i' = i) => lstBadData' = lstBadData]_vars

\* C13: when the search of stop pair i > 0 of a route and direction finds no
\* path, the links that pair reuses are those the search of pair i - 1 of the
\* same route and direction resolved; they are never left over from an earlier
\* pair, another direction or another route.
C13_StaleFromPreviousPair ==
    (pc = "stop" /\ i > 0 /\ NoPathFound) => tlinks_from = <<r, dir, i - 1>>

\* C14: a step raises the load of an edge only if the edge carries the source
\* link of the stop pair or a link of the pair's normalized path, also where
\* parallel edges with different links join the same two nodes.
C14_LoadOnOwnLink ==
    [][\A p \in NodePairs : \A k \in 1..Len(G[p]) :
          G'[p][k].total > G[p][k].total =>
              (G[p][k].link = eSource \/ InSeq(G[p][k].link, tlinks'))]_vars

====
